---------------------------- MODULE Spec2Model ----------------------------
(***************************************************************************)
(* A model of py-pinger.py: the Pinger class (construction, the two        *)
(* configuration setters, ping_targets with its ThreadPoolExecutor, the    *)
(* worker _capture_target, the parser _ping_it, elapsed_seconds, to_dict)  *)
(* and output_json.                                                        *)
(*                                                                         *)
(* Strings are TLA+ strings; the Python string methods the program uses    *)
(* (split, strip, lstrip, startswith, in, slicing, int, float) are         *)
(* operators over them, written after the Python semantics.                *)
(***************************************************************************)
EXTENDS Integers, Sequences, FiniteSets, TLC

(***************************************************************************)
(* Program constants (class DEFAULTS).                                     *)
(***************************************************************************)
MAX_THREADS == 50
NUM_REQUESTS == 4
REQUEST_TIMEOUT_LINUX == 2
REQUEST_TIMEOUT_WINDOWS == 2000

(***************************************************************************)
(* Bounds of the model.                                                    *)
(***************************************************************************)
\* longest input target list
MaxLen == 3
\* DEFAULTS.MAX_THREADS is a class attribute read when ping_targets starts.
\* The program ships 50; the model also runs the ceilings 1..SmallCeiling,
\* so that runs with more targets than workers occur within MaxLen.
SmallCeiling == 2
\* largest difference between the two readings of the clock
MaxElapsed == 1

\* the host names targets are drawn from
Hosts == {"a", "b", "c"}

(***************************************************************************)
(* Python values.                                                          *)
(***************************************************************************)
None == "None"
\* a datetime attribute that is None is <<>>, one that holds the reading t is <<t>>
NoTime == <<>>
ValueError == "ValueError"
IndexError == "IndexError"
Exceptions == {ValueError, IndexError}

Min(a, b) == IF a <= b THEN a ELSE b

Range(s) == {s[i] : i \in 1..Len(s)}

(***************************************************************************)
(* str methods.                                                            *)
(***************************************************************************)
Char(s, i) == SubSeq(s, i, i)

Whitespace == {" ", "\n", "\t", "\r"}

Digits == {"0", "1", "2", "3", "4", "5", "6", "7", "8", "9"}

DigitValue(c) ==
    CASE c = "0" -> 0 [] c = "1" -> 1 [] c = "2" -> 2 [] c = "3" -> 3
      [] c = "4" -> 4 [] c = "5" -> 5 [] c = "6" -> 6 [] c = "7" -> 7
      [] c = "8" -> 8 [] c = "9" -> 9

\* s[n:]
DropFirst(s, n) == SubSeq(s, n + 1, Len(s))

\* s[:-n], n > 0
DropLast(s, n) == SubSeq(s, 1, Len(s) - n)

RECURSIVE Lstrip(_)
Lstrip(s) ==
    IF Len(s) > 0 /\ Char(s, 1) \in Whitespace THEN Lstrip(DropFirst(s, 1)) ELSE s

RECURSIVE Rstrip(_)
Rstrip(s) ==
    IF Len(s) > 0 /\ Char(s, Len(s)) \in Whitespace THEN Rstrip(DropLast(s, 1)) ELSE s

Strip(s) == Rstrip(Lstrip(s))

StartsWith(s, p) == Len(s) >= Len(p) /\ SubSeq(s, 1, Len(p)) = p

\* sub in s
Contains(s, sub) ==
    \E i \in 1..(Len(s) - Len(sub) + 1) : SubSeq(s, i, i + Len(sub) - 1) = sub

\* index of the first occurrence of the character sep in s, 0 when absent
RECURSIVE FindFrom(_, _, _)
FindFrom(s, sep, i) ==
    IF i > Len(s) THEN 0
    ELSE IF Char(s, i) = sep THEN i
    ELSE FindFrom(s, sep, i + 1)

\* s.split(sep) for a one-character sep: a list of Len >= 1; adjacent
\* separators give empty strings
RECURSIVE Split(_, _)
Split(s, sep) ==
    LET i == FindFrom(s, sep, 1)
    IN  IF i = 0 THEN <<s>>
        ELSE <<SubSeq(s, 1, i - 1)>> \o Split(DropFirst(s, i), sep)

AllDigits(s) == Len(s) > 0 /\ \A i \in 1..Len(s) : Char(s, i) \in Digits

RECURSIVE DigitsValue(_)
DigitsValue(s) ==
    IF Len(s) = 0 THEN 0
    ELSE 10 * DigitsValue(DropLast(s, 1)) + DigitValue(Char(s, Len(s)))

(***************************************************************************)
(* Results of an evaluation that may raise: exc is None or the exception.  *)
(***************************************************************************)
Ok(v) == [exc |-> None, val |-> v]

Raise(e) == [exc |-> e, val |-> None]

\* int(s): optional surrounding whitespace, optional sign, decimal digits;
\* anything else raises ValueError
ParseInt(s) ==
    LET t == Strip(s)
        signed == Len(t) > 0 /\ Char(t, 1) \in {"+", "-"}
        body == IF signed THEN DropFirst(t, 1) ELSE t
    IN  IF ~AllDigits(body) THEN Raise(ValueError)
        ELSE IF signed /\ Char(t, 1) = "-" THEN Ok(0 - DigitsValue(body))
        ELSE Ok(DigitsValue(body))

\* int(float(s)) for the decimal notation [sign]digits[.digits]: the value
\* truncated toward zero; anything else raises ValueError
ParseFloatTrunc(s) ==
    LET t == Strip(s)
        signed == Len(t) > 0 /\ Char(t, 1) \in {"+", "-"}
        body == IF signed THEN DropFirst(t, 1) ELSE t
        dot == FindFrom(body, ".", 1)
        whole == IF dot = 0 THEN body ELSE SubSeq(body, 1, dot - 1)
        frac == IF dot = 0 THEN "" ELSE DropFirst(body, dot)
        wellFormed ==
            /\ Len(whole) + Len(frac) > 0
            /\ Len(whole) > 0 => AllDigits(whole)
            /\ Len(frac) > 0 => AllDigits(frac)
    IN  IF ~wellFormed THEN Raise(ValueError)
        ELSE IF signed /\ Char(t, 1) = "-" THEN Ok(0 - DigitsValue(whole))
        ELSE Ok(DigitsValue(whole))


\* list[i] for i >= 0 (Python counts from 0)
Item(list, i) == IF i < Len(list) THEN Ok(list[i + 1]) ELSE Raise(IndexError)

\* int(list[i][:-drop]), int(list[i]) when drop = 0
IntItem(list, i, drop) ==
    LET it == Item(list, i)
    IN  IF it.exc # None THEN it
        ELSE ParseInt(IF drop = 0 THEN it.val ELSE DropLast(it.val, drop))

\* int(float(list[i]))
FloatItem(list, i) ==
    LET it == Item(list, i)
    IN  IF it.exc # None THEN it
        ELSE ParseFloatTrunc(it.val)

\* the list display [a, b, c]: evaluated left to right, the first exception wins
List3(a, b, c) ==
    IF a.exc # None THEN a
    ELSE IF b.exc # None THEN b
    ELSE IF c.exc # None THEN c
    ELSE Ok(<<a.val, b.val, c.val>>)

(***************************************************************************)
(* class PingResult: packets = [sent, received, lost], rtt = [min, max,    *)
(* avg], error.  __post_init__ zeroes both lists.                          *)
(***************************************************************************)
PingResult == [packets |-> <<0, 0, 0>>, rtt |-> <<0, 0, 0>>, error |-> ""]

(***************************************************************************)
(* Pinger._ping_cmd: the request count and the timeout handed to ping.     *)
(***************************************************************************)
PingCmd(is_windows, count, timeout, target_host) ==
    [flag_count |-> IF is_windows THEN "-n" ELSE "-c", count |-> count,
     flag_wait |-> IF is_windows THEN "-w" ELSE "-W", wait |-> timeout,
     host |-> target_host]

(***************************************************************************)
(* Pinger._ping_it, the branch p_rc != 0.                                  *)
(***************************************************************************)
\* the branch appending " offline?" for every exit code
ErrorOf_AlwaysOffline(p_rc, p_stderr) ==
    IF Len(p_stderr) > 0 THEN Strip(p_stderr)
    ELSE "(" \o ToString(p_rc) \o ")" \o " offline?"

ErrorOf(p_rc, p_stderr) ==
    IF Len(p_stderr) > 0 THEN Strip(p_stderr)
    ELSE "(" \o ToString(p_rc) \o ")" \o (IF p_rc = 1 THEN " offline?" ELSE "")

(***************************************************************************)
(* Pinger._ping_it, one line of stdout on Windows.  Gives the updated      *)
(* ping_result, or the exception the line raises.                          *)
(***************************************************************************)
WindowsLine(ping_result, token) ==
    IF StartsWith(token, "Minimum")
    THEN LET rtt_line == Split(Strip(token), " ")
             rtt == List3(IntItem(rtt_line, 2, 3), IntItem(rtt_line, 5, 3),
                          IntItem(rtt_line, 8, 2))
         IN  IF rtt.exc # None THEN rtt
             ELSE Ok([ping_result EXCEPT !.rtt = rtt.val])
    ELSE IF StartsWith(token, "Packets:")
    THEN LET packet_line == Split(Strip(token), " ")
             packets == List3(IntItem(packet_line, 3, 1), IntItem(packet_line, 6, 1),
                              IntItem(packet_line, 9, 0))
         IN  IF packets.exc # None THEN packets
             ELSE Ok([ping_result EXCEPT !.packets = packets.val])
    ELSE Ok(ping_result)

(***************************************************************************)
(* Pinger._ping_it, one line of stdout on POSIX.  The probe prints         *)
(* min/avg/max; the result keeps [min, max, avg].                          *)
(***************************************************************************)
\* PosixLine keeping the three figures in the order printed
PosixLine_AsPrinted(ping_result, token) ==
    IF Contains(token, "rtt min")
    THEN LET field == Item(Split(token, " "), 3)
             rtt_values == IF field.exc # None THEN <<>> ELSE Split(field.val, "/")
             rtt == List3(FloatItem(rtt_values, 0), FloatItem(rtt_values, 1),
                          FloatItem(rtt_values, 2))
         IN  IF field.exc # None THEN field
             ELSE IF rtt.exc # None THEN rtt
             ELSE Ok([ping_result EXCEPT !.rtt = rtt.val])
    ELSE IF Contains(token, "packets transmitted,")
    THEN LET packet_line == Split(token, " ")
             packets == List3(IntItem(packet_line, 0, 0), IntItem(packet_line, 3, 0),
                              IntItem(packet_line, 5, 1))
         IN  IF packets.exc # None THEN packets
             ELSE Ok([ping_result EXCEPT !.packets = packets.val])
    ELSE Ok(ping_result)

PosixLine(ping_result, token) ==
    IF Contains(token, "rtt min")
    THEN LET field == Item(Split(token, " "), 3)
             rtt_values == IF field.exc # None THEN <<>> ELSE Split(field.val, "/")
             rtt == List3(FloatItem(rtt_values, 0), FloatItem(rtt_values, 2),
                          FloatItem(rtt_values, 1))
         IN  IF field.exc # None THEN field
             ELSE IF rtt.exc # None THEN rtt
             ELSE Ok([ping_result EXCEPT !.rtt = rtt.val])
    ELSE IF Contains(token, "packets transmitted,")
    THEN LET packet_line == Split(token, " ")
             packets == List3(IntItem(packet_line, 0, 0), IntItem(packet_line, 3, 0),
                              IntItem(packet_line, 5, 1))
         IN  IF packets.exc # None THEN packets
             ELSE Ok([ping_result EXCEPT !.packets = packets.val])
    ELSE Ok(ping_result)

\* the loop over the lines, from line i on; an exception ends it
RECURSIVE ParseLines(_, _, _, _)
ParseLines(is_windows, lines, i, ping_result) ==
    IF i > Len(lines) THEN Ok(ping_result)
    ELSE LET token == Lstrip(lines[i])
             step == IF is_windows THEN WindowsLine(ping_result, token)
                     ELSE PosixLine(ping_result, token)
         IN  IF step.exc # None THEN step
             ELSE ParseLines(is_windows, lines, i + 1, step.val)

(***************************************************************************)
(* Pinger._ping_it on the finished process p = [rc, stdout, stderr]:       *)
(* Ok(ping_result), or the exception raised while parsing.                 *)
(***************************************************************************)
PingIt(is_windows, p) ==
    IF p.rc # 0
    THEN Ok([PingResult EXCEPT !.error = ErrorOf(p.rc, p.stderr)])
    ELSE ParseLines(is_windows, Split(p.stdout, "\n"), 1, PingResult)

(***************************************************************************)
(* The ping utility, as subprocess.Popen(cmd).communicate() reports it:    *)
(* the processes [rc, stdout, stderr] a run of cmd can end as.  It sends   *)
(* cmd.count requests.                                                     *)
(***************************************************************************)
Percent(lost, sent) == ToString((lost * 100) \div sent)

\* a round-trip time of t thousandths of a millisecond as iputils prints it
Millis(t) ==
    LET f == t % 1000
    IN  ToString(t \div 1000) \o "."
        \o (IF f < 10 THEN "00" ELSE IF f < 100 THEN "0" ELSE "") \o ToString(f)

\* round-trip times: min, avg and max of the replies, min <= avg <= max
Rtt(min, avg, max) == [min |-> min, avg |-> avg, max |-> max]

\* iputils ping: the statistics of a run with the given number of replies,
\* whose round-trip times were t (in thousandths of a millisecond)
PosixReport(cmd, received, errors, t) ==
    "PING " \o cmd.host \o " 56(84) bytes of data.\n\n--- " \o cmd.host
    \o " ping statistics ---\n" \o ToString(cmd.count) \o " packets transmitted, "
    \o ToString(received) \o " received, "
    \o (IF errors > 0 THEN "+" \o ToString(errors) \o " errors, " ELSE "")
    \o Percent(cmd.count - received, cmd.count) \o "% packet loss, time 3004ms\n"
    \o (IF received > 0
        THEN "rtt min/avg/max/mdev = " \o Millis(t.min) \o "/" \o Millis(t.avg)
             \o "/" \o Millis(t.max) \o "/1.021 ms\n"
        ELSE "")

PosixStats(cmd, received, errors) ==
    PosixReport(cmd, received, errors, Rtt(10112, 20550, 30904))

\* Windows ping: the statistics of a run with the given number of replies,
\* whose round-trip times were t (in milliseconds)
WindowsReport(cmd, received, t) ==
    "\r\nPinging " \o cmd.host \o " with 32 bytes of data:\r\n\r\nPing statistics for "
    \o cmd.host \o ":\r\n    Packets: Sent = " \o ToString(cmd.count) \o ", Received = "
    \o ToString(received) \o ", Lost = " \o ToString(cmd.count - received) \o " ("
    \o Percent(cmd.count - received, cmd.count) \o "% loss),\r\n"
    \o (IF received > 0
        THEN "Approximate round trip times in milli-seconds:\r\n"
             \o "    Minimum = " \o ToString(t.min) \o "ms, Maximum = "
             \o ToString(t.max) \o "ms, Average = " \o ToString(t.avg) \o "ms\r\n"
        ELSE "")

WindowsStats(cmd, received) == WindowsReport(cmd, received, Rtt(10, 20, 30))

Process(rc, stdout, stderr) == [rc |-> rc, stdout |-> stdout, stderr |-> stderr]

PosixProcesses(cmd) ==
    { \* every request answered
      Process(0, PosixStats(cmd, cmd.count, 0), ""),
      \* one request lost
      Process(0, PosixStats(cmd, cmd.count - 1, 0), ""),
      \* one request answered by an ICMP error: the line counts "+1 errors"
      Process(0, PosixStats(cmd, cmd.count - 1, 1), ""),
      \* exit 0 and no statistics on stdout
      Process(0, "", ""),
      \* no reply at all
      Process(1, PosixStats(cmd, 0, 0), ""),
      \* the name does not resolve
      Process(2, "", "ping: " \o cmd.host \o ": Name or service not known\n"),
      \* a failure that writes only a line break to stderr
      Process(2, "", "\n"),
      \* a failure that writes nothing
      Process(2, "", "") }

WindowsProcesses(cmd) ==
    { Process(0, WindowsStats(cmd, cmd.count), ""),
      Process(0, WindowsStats(cmd, cmd.count - 1), ""),
      \* a statistics line cut short
      Process(0, "    Packets: Sent = " \o ToString(cmd.count) \o ",\r\n", ""),
      Process(0, "", ""),
      \* no reply at all, or the name does not resolve (reported on stdout)
      Process(1, WindowsStats(cmd, 0), ""),
      Process(1, "", "Access is denied.\r\n"),
      Process(1, "", "\r\n"),
      Process(2, "", "") }

Processes(is_windows, cmd) ==
    IF is_windows THEN WindowsProcesses(cmd) ELSE PosixProcesses(cmd)

(***************************************************************************)
(* dict: insertion-ordered.  keys is the iteration order, ref the object   *)
(* each key refers to.                                                     *)
(***************************************************************************)
EmptyDict == [keys |-> <<>>, ref |-> <<>>]

\* DictSet as a list would do it: every assignment appends the key
DictSet_Append(d, k, v) == [keys |-> Append(d.keys, k), ref |-> (k :> v) @@ d.ref]

\* DictSet with the assigned key moved to the end of the iteration order
DictSet_MoveToEnd(d, k, v) ==
    [keys |-> Append(SelectSeq(d.keys, LAMBDA x : x # k), k),
     ref |-> (k :> v) @@ d.ref]

\* d[k] = v: a new key goes to the end, an existing key keeps its place
DictSet(d, k, v) ==
    [keys |-> IF k \in Range(d.keys) THEN d.keys ELSE Append(d.keys, k),
     ref |-> (k :> v) @@ d.ref]

\* dict.fromkeys(list, v): every key refers to the one object v
RECURSIVE FromKeys(_, _)
FromKeys(list, v) ==
    IF Len(list) = 0 THEN EmptyDict
    ELSE DictSet(FromKeys(SubSeq(list, 1, Len(list) - 1), v), list[Len(list)], v)

\* position of the key k in the iteration order
IndexOf(keys, k) == CHOOSE i \in 1..Len(keys) : keys[i] = k

(***************************************************************************)
(* The setters of Pinger.num_requests and Pinger.request_timeout: the      *)
(* value stored.                                                           *)
(***************************************************************************)
\* the setter clamping to the nearest bound instead of falling back
num_requests_setter_Clamp(count) ==
    IF count < 1 THEN 1 ELSE IF count > 100 THEN 100 ELSE count

num_requests_setter(count) ==
    IF count < 1 \/ count > 100 THEN NUM_REQUESTS ELSE count

DefaultTimeout(is_windows) ==
    IF is_windows THEN REQUEST_TIMEOUT_WINDOWS ELSE REQUEST_TIMEOUT_LINUX

\* the setter taking 0 for "not given" as well
request_timeout_setter_ZeroDefault(is_windows, value) ==
    IF value <= 0 THEN DefaultTimeout(is_windows) ELSE value

request_timeout_setter(is_windows, value) ==
    IF value < 0 THEN DefaultTimeout(is_windows) ELSE value

\* the arguments main passes: args.count and args.wait
RunCounts == {0, 2}

RunWaits == {-1}

(***************************************************************************)
(* Pinger._ping_it for every command a run of main can issue: per command, *)
(* the ways the ping process can end (p) with what _ping_it makes of each  *)
(* (r).  Computed once.                                                    *)
(***************************************************************************)
Commands ==
    {PingCmd(w, num_requests_setter(c), request_timeout_setter(w, v), h) :
        w \in BOOLEAN, c \in RunCounts, v \in RunWaits, h \in Hosts}

PingItRuns ==
    [cmd \in Commands |->
        LET w == cmd.flag_count = "-n"
        IN  {[p |-> p, r |-> PingIt(w, p)] : p \in Processes(w, cmd)}]

\* what cmd.exe writes to stderr when started in a network directory
UncNotice ==
    "'\\\\srv\\pings'\r\nCMD.EXE was started with the above path as the current "
    \o "directory.\r\nUNC paths are not supported.  Defaulting to Windows "
    \o "directory.\r\n"

\* one ping process of each kind: answered, not answered, failed with text on
\* stderr, and statistics _ping_it cannot read
ProcessKinds(is_windows, cmd) ==
    IF is_windows
    THEN {Process(0, WindowsStats(cmd, cmd.count), ""),
          Process(1, WindowsStats(cmd, 0), ""),
          Process(1, WindowsStats(cmd, 0), UncNotice),
          \* a statistics line cut short: IndexError
          Process(0, "    Packets: Sent = " \o ToString(cmd.count) \o ",\r\n", "")}
    ELSE {Process(0, PosixStats(cmd, cmd.count, 0), ""),
          Process(1, PosixStats(cmd, 0, 0), ""),
          \* the shell rejects the command line
          Process(2, "", "/bin/sh: 1: Syntax error: \"(\" unexpected\n"),
          \* "+1 errors" in the statistics: ValueError
          Process(0, PosixStats(cmd, cmd.count - 1, 1), "")}

\* Pinger._ping_it on the process kinds, per command.  Computed once.
PingItKinds ==
    [cmd \in Commands |->
        LET w == cmd.flag_count = "-n"
        IN  {[p |-> p, r |-> PingIt(w, p)] : p \in ProcessKinds(w, cmd)}]

(***************************************************************************)
(* State.                                                                  *)
(***************************************************************************)
VARIABLES
    windows,          \* is_windows()
    max_threads,      \* DEFAULTS.MAX_THREADS
    targets,          \* the list given to Pinger(...)
    target_dict,      \* self._target_dict
    heap,             \* the PingResult objects, by identity
    num_requests,     \* self._num_requests
    request_timeout,  \* self._request_timeout
    count_args,       \* the arguments of the last two num_requests assignments
    wait_args,        \* the arguments of the last two request_timeout assignments
    start_time,       \* self._start_time
    end_time,         \* self._end_time
    now,              \* the clock dt.now() reads
    pc,               \* where the caller of the Pinger is
    num_workers,      \* ping_targets' num_workers, the executor's max_workers
    submitted,        \* how many keys executor.map has submitted
    work_queue,       \* the executor's queue of work items
    threads,          \* the executor's threads: None (idle) or the target run
    idle_semaphore,   \* the executor's _idle_semaphore
    future,           \* per submitted target: the state of its Future
    process,          \* per probed target: how its ping process ended
    writes,           \* per key: how often a worker assigned the entry
    output            \* what main has printed on stdout

vars == <<windows, max_threads, targets, target_dict, heap, num_requests,
          request_timeout, count_args, wait_args, start_time, end_time, now,
          pc, num_workers, submitted, work_queue, threads, idle_semaphore,
          future, process, writes, output>>

config == <<windows, max_threads, targets>>

pool == <<num_workers, submitted, work_queue, threads, idle_semaphore, future,
          process>>

\* the lists of at most n hosts
RECURSIVE Lists(_)
Lists(n) ==
    IF n = 0 THEN {<<>>}
    ELSE Lists(n - 1) \cup {Append(l, h) : l \in {x \in Lists(n - 1) : Len(x) = n - 1},
                                           h \in Hosts}

Ceilings == (1..SmallCeiling) \cup {MAX_THREADS}

\* the object made by PingResult() at line 48
SharedDefault == 0

\* the object a worker makes for the key k: one per key, none is SharedDefault
NewObject(keys, k) == IndexOf(keys, k)

\* the PingResult a key of the result map refers to
ResultOf(k) == heap[target_dict.ref[k]]

(***************************************************************************)
(* Pinger.__init__                                                         *)
(***************************************************************************)
Init ==
    /\ windows \in BOOLEAN
    /\ max_threads \in Ceilings
    /\ targets \in Lists(MaxLen)
    /\ target_dict = FromKeys(targets, SharedDefault)
    /\ heap = (SharedDefault :> PingResult)
    /\ num_requests = NUM_REQUESTS
    /\ request_timeout = DefaultTimeout(windows)
    /\ count_args = <<>>
    /\ wait_args = <<>>
    /\ start_time = NoTime
    /\ end_time = NoTime
    /\ now = 0
    /\ pc = "constructed"
    /\ num_workers = 0
    /\ submitted = 0
    /\ work_queue = <<>>
    /\ threads = <<>>
    /\ idle_semaphore = 0
    /\ future = <<>>
    /\ process = <<>>
    /\ writes = [k \in Range(target_dict.keys) |-> 0]
    /\ output = ""

\* the history h of a setter's arguments after one more call: the last two
Called(h, arg) == IF Len(h) = 0 THEN <<arg>> ELSE <<h[Len(h)], arg>>

(***************************************************************************)
(* pinger.num_requests = count                                             *)
(***************************************************************************)
SetNumRequests(count) ==
    /\ pc = "constructed"
    /\ num_requests' = num_requests_setter(count)
    /\ count_args' = Called(count_args, count)
    /\ UNCHANGED <<config, output, target_dict, heap, request_timeout, wait_args,
                   start_time, end_time, now, pc, pool, writes>>

(***************************************************************************)
(* pinger.request_timeout = value                                          *)
(***************************************************************************)
SetRequestTimeout(value) ==
    /\ pc = "constructed"
    /\ request_timeout' = request_timeout_setter(windows, value)
    /\ wait_args' = Called(wait_args, value)
    /\ UNCHANGED <<config, output, target_dict, heap, num_requests, count_args,
                   start_time, end_time, now, pc, pool, writes>>

(***************************************************************************)
(* main, lines 267-268: both setters, with args.count and args.wait.       *)
(***************************************************************************)
Configure(count, value) ==
    /\ pc = "constructed"
    /\ num_requests' = num_requests_setter(count)
    /\ count_args' = Called(count_args, count)
    /\ request_timeout' = request_timeout_setter(windows, value)
    /\ wait_args' = Called(wait_args, value)
    /\ pc' = "configured"
    /\ UNCHANGED <<config, output, target_dict, heap, start_time, end_time, now, pool,
                   writes>>

(***************************************************************************)
(* ThreadPoolExecutor._adjust_thread_count, called by submit: no new       *)
(* thread when the idle semaphore can be taken, else one more thread       *)
(* while there are fewer than max_workers.  Gives the new                  *)
(* <<threads, idle_semaphore>>.                                            *)
(***************************************************************************)
\* _adjust_thread_count without the max_workers test
AdjustThreadCount_Unbounded(thr, sem, max_workers) ==
    IF sem > 0 THEN <<thr, sem - 1>> ELSE <<Append(thr, None), sem>>

\* _adjust_thread_count that starts no thread
AdjustThreadCount_NoThread(thr, sem, max_workers) ==
    IF sem > 0 THEN <<thr, sem - 1>> ELSE <<thr, sem>>

AdjustThreadCount(thr, sem, max_workers) ==
    IF sem > 0 THEN <<thr, sem - 1>>
    ELSE IF Len(thr) < max_workers THEN <<Append(thr, None), sem>>
    ELSE <<thr, sem>>

\* queue.get(): the item taken and the queue left
QueueGet(q) == [item |-> Head(q), rest |-> Tail(q)]

(***************************************************************************)
(* Pinger.ping_targets, lines 97-106: the worker bound, the start time,    *)
(* the executor.  ThreadPoolExecutor(max_workers) raises ValueError for    *)
(* max_workers <= 0.                                                       *)
(***************************************************************************)
\* the worker bound never below 1
WorkerBound_AtLeastOne(ceiling, d) ==
    IF Len(d.keys) = 0 THEN 1 ELSE Min(ceiling, Len(d.keys))

WorkerBound(ceiling, d) == Min(ceiling, Len(d.keys))

PingTargetsBegin ==
    /\ pc = "configured"
    /\ num_workers' = WorkerBound(max_threads, target_dict)
    /\ start_time' = <<now>>
    /\ pc' = IF num_workers' <= 0 THEN "raised" ELSE "submitting"
    /\ UNCHANGED <<config, output, target_dict, heap, num_requests, request_timeout,
                   count_args, wait_args, end_time, now, submitted, work_queue,
                   threads, idle_semaphore, future, process, writes>>

(***************************************************************************)
(* executor.map, line 107: one submit per key, in iteration order.         *)
(***************************************************************************)
Submit ==
    /\ pc = "submitting"
    /\ submitted < Len(target_dict.keys)
    /\ LET target == target_dict.keys[submitted + 1]
           adjusted == AdjustThreadCount(threads, idle_semaphore, num_workers)
       IN  /\ work_queue' = Append(work_queue, target)
           /\ future' = (target :> "pending") @@ future
           /\ threads' = adjusted[1]
           /\ idle_semaphore' = adjusted[2]
    /\ submitted' = submitted + 1
    /\ UNCHANGED <<config, output, target_dict, heap, num_requests, request_timeout,
                   count_args, wait_args, start_time, end_time, now, pc,
                   num_workers, process, writes>>

(***************************************************************************)
(* The end of the with block, line 106: executor.shutdown(wait=True).      *)
(***************************************************************************)
Shutdown ==
    /\ pc = "submitting"
    /\ submitted = Len(target_dict.keys)
    /\ pc' = "joining"
    /\ UNCHANGED <<config, output, target_dict, heap, num_requests, request_timeout,
                   count_args, wait_args, start_time, end_time, now, pool, writes>>

(***************************************************************************)
(* A thread of the executor takes the next work item and starts            *)
(* _capture_target(target): _ping_it runs the ping process.                *)
(***************************************************************************)
WorkerTake(w) ==
    /\ w \in 1..Len(threads)
    /\ threads[w] = None
    /\ Len(work_queue) > 0
    /\ LET got == QueueGet(work_queue)
       IN  /\ threads' = [threads EXCEPT ![w] = got.item]
           /\ work_queue' = got.rest
           /\ future' = [future EXCEPT ![got.item] = "running"]
    /\ UNCHANGED <<config, output, target_dict, heap, num_requests, request_timeout,
                   count_args, wait_args, start_time, end_time, now, pc,
                   num_workers, submitted, idle_semaphore, process, writes>>

(***************************************************************************)
(* Pinger._capture_target, lines 115-116, on the result r of _ping_it:     *)
(* the new <<target_dict, heap>>.  An exception leaves both as they are.   *)
(***************************************************************************)
\* _capture_target storing under the name with the root label, "a." for "a"
CaptureTarget_Renamed(d, h, target, r) ==
    IF r.exc # None THEN <<d, h>>
    ELSE LET obj == NewObject(d.keys, target)
         IN  <<DictSet(d, target \o ".", obj), (obj :> r.val) @@ h>>

CaptureTarget(d, h, target, r) ==
    IF r.exc # None THEN <<d, h>>
    ELSE LET obj == NewObject(d.keys, target)
         IN  <<DictSet(d, target, obj), (obj :> r.val) @@ h>>

(***************************************************************************)
(* The ping process of a thread ends as run.p; _ping_it makes run.r of it  *)
(* and _capture_target stores the result.  An exception of _ping_it ends   *)
(* the work item: the Future keeps it and nobody asks the Future.  The     *)
(* thread then releases the idle semaphore and waits for the next item.    *)
(***************************************************************************)
WorkerEnds(w, run) ==
    /\ w \in 1..Len(threads)
    /\ threads[w] # None
    /\ LET target == threads[w]
           r == run.r
           stored == CaptureTarget(target_dict, heap, target, r)
       IN  /\ target_dict' = stored[1]
           /\ heap' = stored[2]
           /\ writes' = IF r.exc = None
                        THEN [writes EXCEPT ![target] = @ + 1]
                        ELSE writes
           /\ future' = [future EXCEPT ![target] =
                            IF r.exc = None THEN "finished" ELSE r.exc]
           /\ process' = (target :> run.p) @@ process
    /\ threads' = [threads EXCEPT ![w] = None]
    /\ idle_semaphore' = idle_semaphore + 1
    /\ UNCHANGED <<config, output, num_requests, request_timeout, count_args,
                   wait_args, start_time, end_time, now, pc, num_workers,
                   submitted, work_queue>>

\* the command a busy thread runs
CmdOf(w) == PingCmd(windows, num_requests, request_timeout, threads[w])

WorkerFinish(w) ==
    /\ w \in 1..Len(threads)
    /\ threads[w] # None
    /\ \E run \in PingItRuns[CmdOf(w)] : WorkerEnds(w, run)

\* the same with the ping process ending as one of ProcessKinds
WorkerOutcome(w) ==
    /\ w \in 1..Len(threads)
    /\ threads[w] # None
    /\ \E run \in PingItKinds[CmdOf(w)] : WorkerEnds(w, run)

(***************************************************************************)
(* dt.now() reads the local wall clock, in tenths of a second here.        *)
(* Between two readings it moves on by up to MaxElapsed, or it was set     *)
(* back (a clock correction, the end of daylight saving time) and reads    *)
(* one less.                                                               *)
(***************************************************************************)
ClockSteps == {-1} \cup (0..MaxElapsed)

(***************************************************************************)
(* Pinger.elapsed_seconds: '' while a time is None, else the seconds from  *)
(* start to end with one decimal.                                          *)
(***************************************************************************)
elapsed_seconds(start, end) ==
    IF start = NoTime \/ end = NoTime THEN ""
    ELSE LET d == end[1] - start[1]
             a == IF d < 0 THEN 0 - d ELSE d
         IN  (IF d < 0 THEN "-" ELSE "") \o ToString(a \div 10) \o "."
             \o ToString(a % 10) \o " seconds"

(***************************************************************************)
(* shutdown(wait=True) returns once every thread has ended, which a        *)
(* thread does when the queue is empty; then line 108 reads the clock.     *)
(***************************************************************************)
Join ==
    /\ pc = "joining"
    /\ Len(work_queue) = 0
    /\ \A w \in 1..Len(threads) : threads[w] = None
    /\ \E d \in ClockSteps :
          /\ now' = now + d
          /\ end_time' = <<now + d>>
    /\ pc' = "done"
    /\ UNCHANGED <<config, output, target_dict, heap, num_requests, request_timeout,
                   count_args, wait_args, start_time, num_workers, submitted,
                   work_queue, threads, idle_semaphore, future, process, writes>>

Next ==
    \/ \E count \in RunCounts, value \in RunWaits : Configure(count, value)
    \/ PingTargetsBegin
    \/ Submit
    \/ Shutdown
    \/ \E w \in 1..Len(threads) : WorkerTake(w)
    \/ \E w \in 1..Len(threads) : WorkerFinish(w)
    \/ Join

Spec == Init /\ [][Next]_vars

\* a run of main in which every ping process ends as one of ProcessKinds
NextRun ==
    \/ \E count \in RunCounts, value \in RunWaits : Configure(count, value)
    \/ PingTargetsBegin
    \/ Submit
    \/ Shutdown
    \/ \E w \in 1..Len(threads) : WorkerTake(w)
    \/ \E w \in 1..Len(threads) : WorkerOutcome(w)
    \/ Join

SpecRun == Init /\ [][NextRun]_vars

(***************************************************************************)
(* Scheduling.  The caller's thread keeps running: each of its steps       *)
(* happens if it stays possible.  So does each thread of the executor: it  *)
(* takes the next item when there is one, and the ping process it waits    *)
(* for ends (ping sends a fixed number of requests, each with a timeout).  *)
(***************************************************************************)
Fairness ==
    /\ WF_vars(\E count \in RunCounts, value \in RunWaits : Configure(count, value))
    /\ WF_vars(PingTargetsBegin)
    /\ WF_vars(Submit)
    /\ WF_vars(Shutdown)
    /\ WF_vars(Join)
    /\ \A w \in 1..MaxLen : WF_vars(WorkerTake(w)) /\ WF_vars(WorkerOutcome(w))

SpecFair == SpecRun /\ Fairness

(***************************************************************************)
(* The two setters alone, on a constructed Pinger, called any number of    *)
(* times with arguments in and out of range.                               *)
(***************************************************************************)
CountInputs == {-5, 0, 1, 2, 50, 100, 101}

WaitInputs == {-1, 0, 3}

NextConfig ==
    \/ \E count \in CountInputs : SetNumRequests(count)
    \/ \E value \in WaitInputs : SetRequestTimeout(value)

SpecConfig == Init /\ [][NextConfig]_vars


(***************************************************************************)
(* Pinger._ping_it and Pinger._capture_target alone, on one target: the    *)
(* ping process of the target has ended in one of the ways below, with a   *)
(* range of round-trip times, exit codes and stderr texts.                 *)
(***************************************************************************)
\* round-trip times in thousandths of a millisecond (iputils)
PosixFigures == {45, 999, 1000, 20550}

\* round-trip times in milliseconds (Windows)
WindowsFigures == {0, 1, 20}

\* the statistics a ping can report from samples in S: min <= avg <= max
Statistics(S) ==
    {Rtt(min, avg, max) : min \in S, avg \in S, max \in S} \cap
    {t \in [min : S, avg : S, max : S] : t.min <= t.avg /\ t.avg <= t.max}

\* exit codes of a failed probe: no reply, an error, killed (128 + SIGKILL)
ExitCodes == {1, 2, 137}

StderrTexts == {"", "\n", "  \n", "ping: connect: Network is unreachable\n"}

ProbeProcesses(is_windows, cmd) ==
    Processes(is_windows, cmd)
    \cup (IF is_windows
          THEN {Process(0, WindowsReport(cmd, cmd.count, t), "") :
                   t \in Statistics(WindowsFigures)}
          ELSE {Process(0, PosixReport(cmd, cmd.count, 0, t), "") :
                   t \in Statistics(PosixFigures)})
    \cup {Process(rc, "", e) : rc \in ExitCodes, e \in StderrTexts}
    \* a non-zero exit with statistics on stdout
    \cup {Process(1, IF is_windows THEN WindowsStats(cmd, cmd.count)
                     ELSE PosixStats(cmd, cmd.count, 0), "")}

InitProbe ==
    /\ windows \in BOOLEAN
    /\ max_threads = MAX_THREADS
    /\ targets \in {<<h>> : h \in Hosts}
    /\ target_dict = FromKeys(targets, SharedDefault)
    /\ heap = (SharedDefault :> PingResult)
    /\ num_requests \in {num_requests_setter(c) : c \in RunCounts}
    /\ request_timeout = DefaultTimeout(windows)
    /\ count_args = <<>>
    /\ wait_args = <<>>
    /\ start_time = <<0>>
    /\ end_time = NoTime
    /\ now = 0
    /\ pc = "joining"
    /\ num_workers = 1
    /\ submitted = 1
    /\ work_queue = <<>>
    /\ threads = <<targets[1]>>
    /\ idle_semaphore = 0
    /\ future = (targets[1] :> "running")
    /\ process \in {(targets[1] :> p) :
                       p \in ProbeProcesses(windows,
                                 PingCmd(windows, num_requests, request_timeout,
                                         targets[1]))}
    /\ writes = [k \in Range(target_dict.keys) |-> 0]
    /\ output = ""

\* _ping_it reads the ended process; _capture_target stores the result
ProbeEnds ==
    /\ Len(threads) = 1
    /\ threads[1] # None
    /\ WorkerEnds(1, [p |-> process[threads[1]],
                      r |-> PingIt(windows, process[threads[1]])])

NextProbe == ProbeEnds

SpecProbe == InitProbe /\ [][NextProbe]_vars

(***************************************************************************)
(* PingResult.to_dict and Pinger.to_dict.  A dict is [keys, ref] as above, *)
(* ref giving the value of each key.                                       *)
(***************************************************************************)
\* to_dict reading avg from rtt[1] and max from rtt[2]
PingResult_to_dict_AsPrinted(r) ==
    LET packet_dict == [keys |-> <<"sent", "received", "lost">>,
                        ref |-> [sent |-> r.packets[1], received |-> r.packets[2],
                                 lost |-> r.packets[3]]]
        rtt_dict == [keys |-> <<"min", "max", "avg">>,
                     ref |-> [min |-> r.rtt[1], max |-> r.rtt[3], avg |-> r.rtt[2]]]
    IN  [keys |-> <<"packets", "rtt_ms", "error">>,
         ref |-> [packets |-> packet_dict, rtt_ms |-> rtt_dict, error |-> r.error]]

PingResult_to_dict(r) ==
    LET packet_dict == [keys |-> <<"sent", "received", "lost">>,
                        ref |-> [sent |-> r.packets[1], received |-> r.packets[2],
                                 lost |-> r.packets[3]]]
        rtt_dict == [keys |-> <<"min", "max", "avg">>,
                     ref |-> [min |-> r.rtt[1], max |-> r.rtt[2], avg |-> r.rtt[3]]]
    IN  [keys |-> <<"packets", "rtt_ms", "error">>,
         ref |-> [packets |-> packet_dict, rtt_ms |-> rtt_dict, error |-> r.error]]

\* the loop of Pinger.to_dict over the first n items of d
RECURSIVE ToDictLoop(_, _, _)
ToDictLoop(d, h, n) ==
    IF n = 0 THEN EmptyDict
    ELSE LET host == d.keys[n]
             entry == h[d.ref[host]]
         IN  DictSet(ToDictLoop(d, h, n - 1), host, PingResult_to_dict(entry))

Pinger_to_dict(d, h) == ToDictLoop(d, h, Len(d.keys))

(***************************************************************************)
(* json.dumps, for the dicts to_dict builds and ASCII strings: objects,    *)
(* integers and strings.  indent is 0 for the compact form (indent=None).  *)
(***************************************************************************)
JsonEscapeChar(c) ==
    CASE c = "\"" -> "\\\""
      [] c = "\\" -> "\\\\"
      [] c = "\n" -> "\\n"
      [] c = "\r" -> "\\r"
      [] c = "\t" -> "\\t"
      [] OTHER -> c

\* the first position from i on of a character of the set cs, Len(s) + 1
\* when there is none
FirstOf(s, cs, i) ==
    CHOOSE j \in i..(Len(s) + 1) :
        /\ j = Len(s) + 1 \/ Char(s, j) \in cs
        /\ \A k \in i..(j - 1) : Char(s, k) \notin cs

\* the first position from i on of a character not in cs
FirstNotOf(s, cs, i) ==
    CHOOSE j \in i..(Len(s) + 1) :
        /\ j = Len(s) + 1 \/ Char(s, j) \notin cs
        /\ \A k \in i..(j - 1) : Char(s, k) \in cs

JsonEscaped == {"\"", "\\", "\n", "\r", "\t"}

RECURSIVE JsonEscape(_)
JsonEscape(s) ==
    LET j == FirstOf(s, JsonEscaped, 1)
    IN  IF j > Len(s) THEN s
        ELSE SubSeq(s, 1, j - 1) \o JsonEscapeChar(Char(s, j))
             \o JsonEscape(DropFirst(s, j))

JsonString(s) == "\"" \o JsonEscape(s) \o "\""

RECURSIVE Spaces(_)
Spaces(n) == IF n = 0 THEN "" ELSE " " \o Spaces(n - 1)

\* the members from the i-th on, each "key": value, with sep between two
RECURSIVE JsonMembers(_, _, _, _)
JsonMembers(keys, encoded, sep, i) ==
    IF i > Len(keys) THEN ""
    ELSE JsonString(keys[i]) \o ": " \o encoded[keys[i]]
         \o (IF i < Len(keys) THEN sep ELSE "")
         \o JsonMembers(keys, encoded, sep, i + 1)

\* an object at nesting depth level whose values are already encoded
JsonObject(keys, encoded, indent, level) ==
    IF Len(keys) = 0 THEN "{}"
    ELSE IF indent = 0 THEN "{" \o JsonMembers(keys, encoded, ", ", 1) \o "}"
    ELSE "{\n" \o Spaces(indent * (level + 1))
         \o JsonMembers(keys, encoded, ",\n" \o Spaces(indent * (level + 1)), 1)
         \o "\n" \o Spaces(indent * level) \o "}"

JsonNumbers(d, indent, level) ==
    JsonObject(d.keys, [k \in Range(d.keys) |-> ToString(d.ref[k])], indent, level)

JsonResult(v, indent, level) ==
    JsonObject(v.keys,
               [packets |-> JsonNumbers(v.ref["packets"], indent, level + 1),
                rtt_ms |-> JsonNumbers(v.ref["rtt_ms"], indent, level + 1),
                error |-> JsonString(v.ref["error"])],
               indent, level)

JsonDumps(view, indent) ==
    JsonObject(view.keys,
               [k \in Range(view.keys) |-> JsonResult(view.ref[k], indent, 1)],
               indent, 0)

(***************************************************************************)
(* json.loads, for objects, integers and strings: [val, next], the value   *)
(* read at position i and the position after it.  An object becomes a      *)
(* dict; a key given twice keeps its last value.                           *)
(***************************************************************************)
JsonSkip(s, i) == FirstNotOf(s, Whitespace, i)

JsonUnescapeChar(c) ==
    CASE c = "n" -> "\n"
      [] c = "r" -> "\r"
      [] c = "t" -> "\t"
      [] OTHER -> c

\* the string whose opening quote is before position i
RECURSIVE JsonReadString(_, _, _)
JsonReadString(s, i, acc) ==
    LET j == FirstOf(s, {"\"", "\\"}, i)
        read == acc \o SubSeq(s, i, j - 1)
    IN  IF Char(s, j) = "\""  THEN [val |-> read, next |-> j + 1]
        ELSE JsonReadString(s, j + 2, read \o JsonUnescapeChar(Char(s, j + 1)))

JsonReadDigits(s, i) ==
    LET j == FirstNotOf(s, Digits, i)
    IN  [val |-> DigitsValue(SubSeq(s, i, j - 1)), next |-> j]

JsonReadInt(s, i) ==
    IF Char(s, i) = "-"
    THEN LET n == JsonReadDigits(s, i + 1)
         IN  [val |-> 0 - n.val, next |-> n.next]
    ELSE JsonReadDigits(s, i)

RECURSIVE JsonReadValue(_, _)
RECURSIVE JsonReadMembers(_, _, _)
JsonReadValue(s, i) ==
    IF Char(s, i) = "{" THEN JsonReadMembers(s, JsonSkip(s, i + 1), EmptyDict)
    ELSE IF Char(s, i) = "\"" THEN JsonReadString(s, i + 1, "")
    ELSE JsonReadInt(s, i)

\* the members of an object from position i on, d holding those read so far
JsonReadMembers(s, i, d) ==
    IF Char(s, i) = "}" THEN [val |-> d, next |-> i + 1]
    ELSE LET key == JsonReadString(s, i + 1, "")
             colon == JsonSkip(s, key.next)
             value == JsonReadValue(s, JsonSkip(s, colon + 1))
             after == JsonSkip(s, value.next)
             read == DictSet(d, key.val, value.val)
         IN  IF Char(s, after) = ","
             THEN JsonReadMembers(s, JsonSkip(s, after + 1), read)
             ELSE [val |-> read, next |-> after + 1]

JsonLoads(s) == JsonReadValue(s, JsonSkip(s, 1)).val

(***************************************************************************)
(* The end of a run of main that prints JSON: the probes end, ping_targets *)
(* returns, output_json prints Pinger.to_dict().                           *)
(***************************************************************************)
\* longest input target list of the runs that print
MaxOut == 2

JsonTypes == {"json", "jsonf"}

\* every key was submitted and taken by a thread of its own, and the caller
\* waits in shutdown
InitOutput ==
    /\ windows \in BOOLEAN
    /\ max_threads = MAX_THREADS
    /\ targets \in {l \in Lists(MaxOut) : Len(l) > 0}
    /\ target_dict = FromKeys(targets, SharedDefault)
    /\ heap = (SharedDefault :> PingResult)
    /\ num_requests \in {num_requests_setter(c) : c \in RunCounts}
    /\ request_timeout = DefaultTimeout(windows)
    /\ count_args = <<>>
    /\ wait_args = <<>>
    /\ start_time = <<0>>
    /\ end_time = NoTime
    /\ now = 0
    /\ pc = "joining"
    /\ num_workers = WorkerBound(max_threads, target_dict)
    /\ submitted = Len(target_dict.keys)
    /\ work_queue = <<>>
    /\ threads = target_dict.keys
    /\ idle_semaphore = 0
    /\ future = [k \in Range(target_dict.keys) |-> "running"]
    /\ process = <<>>
    /\ writes = [k \in Range(target_dict.keys) |-> 0]
    /\ output = ""

\* main, lines 272-273: output_json(pinger, json_type), which is
\* print(json.dumps(pinger.to_dict())), with indent=2 unless json_type is
\* 'json'
OutputJson(json_type) ==
    /\ pc = "done"
    /\ output' = JsonDumps(Pinger_to_dict(target_dict, heap),
                           IF json_type = "json" THEN 0 ELSE 2) \o "\n"
    /\ pc' = "printed"
    /\ UNCHANGED <<config, target_dict, heap, num_requests, request_timeout,
                   count_args, wait_args, start_time, end_time, now, pool,
                   writes>>

NextOutput ==
    \/ \E w \in 1..Len(threads) : WorkerOutcome(w)
    \/ Join
    \/ \E json_type \in JsonTypes : OutputJson(json_type)

SpecOutput == InitOutput /\ [][NextOutput]_vars

(***************************************************************************)
(* Properties.                                                             *)
(***************************************************************************)
Busy == {w \in 1..Len(threads) : threads[w] # None}

Returned == pc = "done"

\* the targets of a list, each once, in the order of their first occurrence
RECURSIVE FirstOccurrences(_)
FirstOccurrences(list) ==
    IF Len(list) = 0 THEN <<>>
    ELSE LET front == FirstOccurrences(SubSeq(list, 1, Len(list) - 1))
             last == list[Len(list)]
         IN  IF last \in Range(front) THEN front ELSE Append(front, last)

Sent(k) == ResultOf(k).packets[1]

Received(k) == ResultOf(k).packets[2]

Lost(k) == ResultOf(k).packets[3]

\* C1, as claimed: when ping_targets returns after a run with fewer workers
\* than input targets, the result map has as many entries as the input list
\* has targets, one per input target.
C1_SizeIsInputCount ==
    (Returned /\ num_workers < Len(targets))
        => /\ Len(target_dict.keys) = Len(targets)
           /\ Range(target_dict.keys) = Range(targets)

\* C1, amended: when ping_targets returns, the result map has exactly one
\* entry per distinct input target: no input target is missing, no key is
\* there twice, and no key is there that was not given.
C1_OneEntryPerDistinctTarget ==
    Returned
        => /\ Range(target_dict.keys) = Range(targets)
           /\ Len(target_dict.keys) = Cardinality(Range(targets))
           /\ DOMAIN target_dict.ref = Range(targets)

\* C1: a run with fewer workers than keys, on a list that repeats a target,
\* has returned.
C1_Witness ==
    /\ Returned
    /\ num_workers < Len(target_dict.keys)
    /\ Len(target_dict.keys) < Len(targets)

\* C2: when ping_targets has returned, every entry of the map was written by
\* the worker that probed its target, no worker is running and no work item
\* waits.
C2_AllWrittenAtReturn ==
    Returned
        => /\ \A k \in Range(target_dict.keys) :
                 writes[k] >= 1 /\ target_dict.ref[k] # SharedDefault
           /\ Busy = {}
           /\ Len(work_queue) = 0

\* C3: when ping_targets has returned, every target's packets sent are its
\* packets received plus its packets lost, and are the configured request
\* count.
C3_PacketsAddUp ==
    Returned
        => \A k \in Range(target_dict.keys) :
              Sent(k) = Received(k) + Lost(k) /\ Sent(k) = num_requests

\* C4: when ping_targets has returned, a target with no packet received has a
\* non-empty error.
C4_NoReplyHasError ==
    Returned
        => \A k \in Range(target_dict.keys) :
              Received(k) = 0 => ResultOf(k).error # ""

\* C5: ping_targets does not raise on a non-empty target list, and when it has
\* returned every target was probed, and every target whose probe failed (a
\* non-zero exit, or an exception in its worker) has the failure in its error
\* field.
C5_FailureRecorded ==
    /\ (pc = "raised" => Len(targets) = 0)
    /\ Returned
          => \A k \in Range(target_dict.keys) :
                /\ k \in DOMAIN process
                /\ (process[k].rc # 0 \/ future[k] \in Exceptions)
                      => ResultOf(k).error # ""

\* C6: no two workers process the same target, no entry is written twice,
\* and when ping_targets has returned every entry was written exactly once.
C6_WrittenExactlyOnce ==
    /\ \A v, w \in Busy : threads[v] = threads[w] => v = w
    /\ \A k \in Range(target_dict.keys) : writes[k] <= 1
    /\ Returned => \A k \in Range(target_dict.keys) : writes[k] = 1

\* C7: in every state from construction on, no two entries of the result map
\* refer to the same PingResult object.
C7_NoSharedInstance ==
    \A j, k \in Range(target_dict.keys) :
        target_dict.ref[j] = target_dict.ref[k] => j = k

\* C8: at every moment at most min(MAX_THREADS, number of targets) targets are
\* being probed, the executor has no more threads than that, and the worker
\* bound of a run is this number from the start of the run to its end.
C8_BoundedConcurrency ==
    /\ Cardinality(Busy) <= Min(max_threads, Len(target_dict.keys))
    /\ Len(threads) <= Min(max_threads, Len(target_dict.keys))
    /\ pc \in {"submitting", "joining", "done"}
          => num_workers = Min(max_threads, Len(target_dict.keys))

\* C8: as many targets are being probed as the bound allows, with a ceiling
\* below the number of targets, while another target waits in the queue.
C8_Witness ==
    /\ max_threads < Len(target_dict.keys)
    /\ Cardinality(Busy) = max_threads
    /\ Len(work_queue) > 0

\* C9: in every state the iteration order of the result map is the input
\* order of the targets (a repeated target at its first place), whatever the
\* workers have written so far.
C9_IterationOrderIsInputOrder ==
    target_dict.keys = FirstOccurrences(targets)

\* C9: a later target's result is written while an earlier target is still
\* being probed.
C9_Witness ==
    \E i, j \in 1..Len(target_dict.keys) :
        /\ i < j
        /\ writes[target_dict.keys[j]] = 1
        /\ \E w \in Busy : threads[w] = target_dict.keys[i]

\* C10: num_requests is within 1..100 in every state; it is 4 before any
\* assignment, and after an assignment of c it is c when 1 <= c <= 100 and 4
\* otherwise, whatever was stored before.
C10_NumRequestsStored ==
    /\ 1 <= num_requests /\ num_requests <= 100
    /\ Len(count_args) = 0 => num_requests = 4
    /\ Len(count_args) > 0
          => LET c == count_args[Len(count_args)]
             IN  num_requests = IF 1 <= c /\ c <= 100 THEN c ELSE 4

\* C10: 101 was assigned after 100 had been stored, and 4 is stored.
C10_Witness ==
    /\ count_args = <<100, 101>>
    /\ num_requests = 4

\* C11: request_timeout is never negative; it is the platform default (2 on
\* POSIX, 2000 on Windows) before any assignment, and after an assignment of
\* v it is the platform default when v < 0 and v itself when v >= 0, 0
\* included, whatever was stored before.
C11_RequestTimeoutStored ==
    /\ request_timeout >= 0
    /\ Len(wait_args) = 0 => request_timeout = IF windows THEN 2000 ELSE 2
    /\ Len(wait_args) > 0
          => LET v == wait_args[Len(wait_args)]
             IN  request_timeout = IF v < 0 THEN (IF windows THEN 2000 ELSE 2)
                                   ELSE v

\* C11: 0 was assigned after the default had been restored by -1, and 0 is
\* stored.
C11_Witness ==
    /\ wait_args = <<-1, 0>>
    /\ request_timeout = 0

\* the figures of a PingResult by the slots PingResult.to_dict reports them from
RttMin(k) == ResultOf(k).rtt[1]

RttMax(k) == ResultOf(k).rtt[2]

RttAvg(k) == ResultOf(k).rtt[3]

\* the probe of every target has ended
Probed ==
    \A k \in Range(target_dict.keys) :
        k \in DOMAIN future /\ future[k] \notin {"pending", "running"}

\* the probe of the target k answered every request with the round-trip
\* times t
Reported(k, t) ==
    LET cmd == PingCmd(windows, num_requests, request_timeout, k)
    IN  process[k] =
            Process(0, IF windows THEN WindowsReport(cmd, cmd.count, t)
                       ELSE PosixReport(cmd, cmd.count, 0, t), "")

\* C12: a probed target with packets received has 0 <= rttMin <= rttAvg <=
\* rttMax, and when its probe reported the round-trip times t these are t's
\* min, avg and max in whole milliseconds, fractions cut off, each in its own
\* slot.
C12_RttOrdered ==
    Probed
        => \A k \in Range(target_dict.keys) :
              /\ Received(k) > 0
                    => /\ 0 <= RttMin(k)
                       /\ RttMin(k) <= RttAvg(k)
                       /\ RttAvg(k) <= RttMax(k)
              /\ \A t \in Statistics(PosixFigures) :
                    (~windows /\ Reported(k, t))
                        => /\ RttMin(k) = t.min \div 1000
                           /\ RttAvg(k) = t.avg \div 1000
                           /\ RttMax(k) = t.max \div 1000
              /\ \A t \in Statistics(WindowsFigures) :
                    (windows /\ Reported(k, t))
                        => /\ RttMin(k) = t.min
                           /\ RttAvg(k) = t.avg
                           /\ RttMax(k) = t.max

\* C12: a probe on POSIX reported 0.999/1.000/20.550 ms with every request
\* answered, and the result holds 0, 1 and 20.
C12_Witness ==
    /\ Probed
    /\ ~windows
    /\ \E k \in Range(target_dict.keys) :
          /\ Reported(k, Rtt(999, 1000, 20550))
          /\ Received(k) > 0
          /\ RttMin(k) = 0 /\ RttAvg(k) = 1 /\ RttMax(k) = 20

Printed == pc = "printed"

\* the value at the two-step path a, b of the object o read back from JSON
Field(o, a, b) == o.ref[a].ref[b]

\* C13: once main has printed the JSON, what it printed reads back as one
\* object per distinct target and no other; the object of a target holds the
\* sent/received/lost and min/max/avg numbers of the target's PingResult,
\* each from its own slot, and the PingResult's error string; and the result
\* map is as the workers left it.
C13_JsonReadsBack ==
    Printed
        => LET view == JsonLoads(output)
           IN  /\ Range(view.keys) = Range(targets)
               /\ Len(view.keys) = Cardinality(Range(targets))
               /\ \A k \in Range(target_dict.keys) :
                     LET r == ResultOf(k)
                         o == view.ref[k]
                     IN  /\ Field(o, "packets", "sent") = r.packets[1]
                         /\ Field(o, "packets", "received") = r.packets[2]
                         /\ Field(o, "packets", "lost") = r.packets[3]
                         /\ Field(o, "rtt_ms", "min") = r.rtt[1]
                         /\ Field(o, "rtt_ms", "max") = r.rtt[2]
                         /\ Field(o, "rtt_ms", "avg") = r.rtt[3]
                         /\ o.ref["error"] = r.error
                         /\ r = IF writes[k] = 0 THEN PingResult
                                ELSE PingIt(windows, process[k]).val

\* C13: the indented JSON of two targets was printed, one with the
\* round-trip times 10, 30, 20 and one whose error holds quotes, backslashes
\* and line breaks.
C13_Witness ==
    /\ Printed
    /\ windows
    /\ Len(target_dict.keys) = 2
    /\ Contains(output, "\n  ")
    /\ \E j, k \in Range(target_dict.keys) :
          /\ ResultOf(j).rtt = <<10, 30, 20>>
          /\ ResultOf(k).error = Strip(UncNotice)

\* C14: a probed target with no packet received has the three RTT fields 0
\* and a non-empty error, and a target whose probe exited non-zero has the
\* three RTT fields 0.
C14_FailedHostZeroRttWithError ==
    Probed
        => \A k \in Range(target_dict.keys) :
              /\ Received(k) = 0
                    => /\ ResultOf(k).rtt = <<0, 0, 0>>
                       /\ ResultOf(k).error # ""
              /\ process[k].rc # 0 => ResultOf(k).rtt = <<0, 0, 0>>

\* C15: after a probe that exited with rc # 0 the error is the stderr text
\* without its surrounding whitespace when stderr is not empty, and
\* otherwise "(rc)", followed by " offline?" exactly when rc = 1; after a
\* probe that exited with 0 the error is the empty string.
C15_ErrorClassified ==
    Probed
        => \A k \in Range(target_dict.keys) :
              LET p == process[k]
                  e == ResultOf(k).error
              IN  /\ (p.rc # 0 /\ Len(p.stderr) > 0) => e = Strip(p.stderr)
                  /\ (p.rc # 0 /\ p.stderr = "ping: connect: Network is unreachable\n")
                        => e = "ping: connect: Network is unreachable"
                  /\ (p.rc # 0 /\ p.stderr \in {"\n", "  \n", "\r\n"}) => e = ""
                  /\ (p.rc = 1 /\ p.stderr = "") => e = "(1) offline?"
                  /\ (p.rc = 2 /\ p.stderr = "") => e = "(2)"
                  /\ (p.rc = 137 /\ p.stderr = "") => e = "(137)"
                  /\ (p.rc # 0 /\ p.stderr = "")
                        => e = "(" \o ToString(p.rc) \o ")"
                               \o (IF p.rc = 1 THEN " offline?" ELSE "")
                  /\ p.rc = 0 => e = ""

\* C15: a probe exited with 1 and nothing on stderr, and the error is
\* "(1) offline?".
C15_Witness ==
    /\ Probed
    /\ \E k \in Range(target_dict.keys) :
          /\ process[k].rc = 1
          /\ process[k].stderr = ""
          /\ ResultOf(k).error = "(1) offline?"

\* C16: no work is submitted and no thread exists while the start time is
\* unset; the end time is set only after the start time, with no work item
\* waiting, running or pending; elapsed_seconds is '' while either time is
\* unset; and once both are set the end time is not before the start time
\* and elapsed_seconds shows their difference.
C16_StartBeforeEndAfter ==
    /\ start_time = NoTime
          => submitted = 0 /\ Len(threads) = 0 /\ DOMAIN process = {}
    /\ end_time # NoTime
          => /\ start_time # NoTime
             /\ Busy = {}
             /\ Len(work_queue) = 0
             /\ \A k \in Range(target_dict.keys) :
                   future[k] \notin {"pending", "running"}
    /\ (start_time = NoTime \/ end_time = NoTime)
          => elapsed_seconds(start_time, end_time) = ""
    /\ (start_time # NoTime /\ end_time # NoTime)
          => /\ end_time[1] - start_time[1] >= 0
             /\ elapsed_seconds(start_time, end_time)
                   = ToString((end_time[1] - start_time[1]) \div 10) \o "."
                     \o ToString((end_time[1] - start_time[1]) % 10) \o " seconds"

\* how many work items for the key k there are or have been: waiting in the
\* queue, running in a thread, or ended
Dispatches(k) ==
    Cardinality({i \in 1..Len(work_queue) : work_queue[i] = k})
    + Cardinality({w \in Busy : threads[w] = k})
    + (IF k \in DOMAIN future /\ future[k] \notin {"pending", "running"}
       THEN 1 ELSE 0)

\* C17: in every state the keys of the result map are the distinct targets
\* given to the constructor, each once, whatever the workers have written;
\* and every key has had exactly one work item once it is submitted and none
\* before, however often its target is in the input list.
C17_KeysAreDistinctTargets ==
    /\ Range(target_dict.keys) = Range(targets)
    /\ DOMAIN target_dict.ref = Range(targets)
    /\ Len(target_dict.keys) = Cardinality(Range(targets))
    /\ \A i \in 1..Len(target_dict.keys) :
          Dispatches(target_dict.keys[i]) = IF i <= submitted THEN 1 ELSE 0
    /\ Returned => \A k \in Range(target_dict.keys) : Dispatches(k) = 1

\* C17: a target given twice has been probed and written, once, and the run
\* has returned.
C17_Witness ==
    /\ Returned
    /\ \E i, j \in 1..Len(targets) :
          /\ i < j
          /\ targets[i] = targets[j]
          /\ writes[targets[i]] = 1
          /\ Dispatches(targets[i]) = 1

\* C18: a run on a non-empty target list never stops before ping_targets has
\* returned (some step is possible in every state until then), and under the
\* scheduling of SpecFair it does return, with the end time set, whether the
\* targets are fewer than, as many as, or more than the worker ceiling.
C18_EventuallyReturns ==
    /\ [](Len(targets) > 0 /\ ~Returned => ENABLED Next)
    /\ Len(targets) > 0 => <>(Returned /\ end_time # NoTime)

\* C18: a run with more targets than the worker ceiling has returned with the
\* end time set.
C18_Witness ==
    /\ Returned
    /\ end_time # NoTime
    /\ max_threads < Len(target_dict.keys)
    /\ \A k \in Range(target_dict.keys) : Dispatches(k) = 1

\* C19: on an empty target list ping_targets gets no further than the
\* creation of the executor: it raises with the worker bound 0 and the start
\* time set, no work is ever submitted and no thread started, the end time
\* stays unset and elapsed_seconds stays ''.
C19_EmptyListRaises ==
    Len(targets) = 0
        => /\ pc \in {"constructed", "configured", "raised"}
           /\ pc = "raised" => num_workers = 0 /\ start_time # NoTime
           /\ submitted = 0
           /\ Len(threads) = 0
           /\ DOMAIN future = {}
           /\ end_time = NoTime
           /\ elapsed_seconds(start_time, end_time) = ""

\* C19: ping_targets has raised on an empty list, after setting the start
\* time.
C19_Witness ==
    /\ Len(targets) = 0
    /\ pc = "raised"
    /\ start_time # NoTime
    /\ end_time = NoTime

=============================================================================
